---- MODULE Spec2Model ----
(***************************************************************************)
(* Model of src/src/method.rs: the HTTP request Method enumeration, its    *)
(* four classification predicates, its Display rendering, and its two      *)
(* parse entry points FromStr and TryFrom<&[u8]>.                          *)
(*                                                                         *)
(* A byte buffer (&[u8]) is a sequence of integers in 0..255.  A text      *)
(* (&str / String) is a sequence of Unicode scalar values, so decoding a   *)
(* buffer (String::from_utf8) and encoding a text (str::as_bytes) are real *)
(* conversions.  An std::io::Error is a record of its ErrorKind and the    *)
(* text of its message.                                                    *)
(***************************************************************************)
EXTENDS Integers, Sequences, FiniteSets

VARIABLES
    bytes,       \* the caller's raw byte buffer, as read off the wire
    text,        \* the caller's text token: the buffer seen as a &str, if it is one
    method,      \* the Method value the caller holds, or NoMethod
    flags,       \* results of the predicates called on `method` so far
    lastRender,  \* the last to_string call: its receiver and the String produced
    lastParse,   \* the last from_str call: its argument and its Result
    lastTry      \* the last try_from call: its argument and its Result

vars == <<bytes, text, method, flags, lastRender, lastParse, lastTry>>

---------------------------------------------------------------------------
(* Bounds of the model. *)

\* longest byte buffer enumerated exhaustively over Alphabet
MaxLen == 2

---------------------------------------------------------------------------
(* The enumeration, method.rs lines 7-17. *)

Method == {"Get", "Head", "Post", "Put", "Delete", "Connect", "Options", "Trace", "Patch"}

NoMethod == "NoMethod"

---------------------------------------------------------------------------
(* Option and Result values. *)

None == [some |-> FALSE]
Some(x) == [some |-> TRUE, v |-> x]

Ok(x) == [ok |-> TRUE, val |-> x]
Err(e) == [ok |-> FALSE, err |-> e]

\* std::io::Error::new(kind, message)
ErrorNew(kind, message) == [kind |-> kind, msg |-> message]

NoCall == [called |-> FALSE]
Call(a, r) == [called |-> TRUE, arg |-> a, out |-> r]

\* no predicate called yet; a called one holds Some(<its result>)
NoFlags == [is_safe |-> None, is_idempotent |-> None,
            is_cacheable |-> None, has_body |-> None]

---------------------------------------------------------------------------
(* The string literals of method.rs, as sequences of scalar values. *)

GET     == <<71, 69, 84>>                      \* "GET"
HEAD    == <<72, 69, 65, 68>>                  \* "HEAD"
POST    == <<80, 79, 83, 84>>                  \* "POST"
PUT     == <<80, 85, 84>>                      \* "PUT"
DELETE  == <<68, 69, 76, 69, 84, 69>>          \* "DELETE"
CONNECT == <<67, 79, 78, 78, 69, 67, 84>>      \* "CONNECT"
OPTIONS == <<79, 80, 84, 73, 79, 78, 83>>      \* "OPTIONS"
TRACE   == <<84, 82, 65, 67, 69>>              \* "TRACE"
PATCH   == <<80, 65, 84, 67, 72>>              \* "PATCH"

\* "The method `" and "` is invalid.", the two literal pieces of the format
\* string on line 84
InvalidMsgHead == <<84, 104, 101, 32, 109, 101, 116, 104, 111, 100, 32, 96>>
InvalidMsgTail == <<96, 32, 105, 115, 32, 105, 110, 118, 97, 108, 105, 100, 46>>

\* format!("The method `{}` is invalid.", s)
FormatInvalid(s) == InvalidMsgHead \o s \o InvalidMsgTail

---------------------------------------------------------------------------
(* The classification predicates, method.rs lines 19-51. *)

is_safe(self) ==
    IF self \in {"Get", "Head", "Options", "Trace"} THEN TRUE ELSE FALSE

is_idempotent(self) ==
    IF self \in {"Get", "Head", "Options", "Trace", "Put", "Delete"} THEN TRUE ELSE FALSE

\* is_cacheable with POST counted as cacheable
is_cacheable_with_post(self) ==
    IF self \in {"Get", "Head", "Post"} THEN TRUE ELSE FALSE

is_cacheable(self) ==
    IF self \in {"Get", "Head"} THEN TRUE ELSE FALSE

\* has_body with the Delete arm left out
has_body_no_delete(self) ==
    IF self \in {"Post", "Put", "Patch"} THEN TRUE ELSE FALSE

has_body(self) ==
    IF self \in {"Post", "Put", "Delete", "Patch"} THEN TRUE ELSE FALSE

---------------------------------------------------------------------------
(* Display, method.rs lines 53-68.  to_string is std's blanket ToString    *)
(* over Display: the String holding what fmt wrote.                        *)

\* fmt writing the variant's name as derive(Debug) does
fmt_debug(self) ==
    CASE self = "Get"     -> <<71, 101, 116>>
      [] self = "Head"    -> <<72, 101, 97, 100>>
      [] self = "Post"    -> <<80, 111, 115, 116>>
      [] self = "Put"     -> <<80, 117, 116>>
      [] self = "Delete"  -> <<68, 101, 108, 101, 116, 101>>
      [] self = "Connect" -> <<67, 111, 110, 110, 101, 99, 116>>
      [] self = "Options" -> <<79, 112, 116, 105, 111, 110, 115>>
      [] self = "Trace"   -> <<84, 114, 97, 99, 101>>
      [] self = "Patch"   -> <<80, 97, 116, 99, 104>>

\* fmt with the Patch arm copied from the Put arm
fmt_patch_as_put(self) ==
    CASE self = "Get"     -> GET
      [] self = "Head"    -> HEAD
      [] self = "Post"    -> POST
      [] self = "Put"     -> PUT
      [] self = "Delete"  -> DELETE
      [] self = "Connect" -> CONNECT
      [] self = "Options" -> OPTIONS
      [] self = "Trace"   -> TRACE
      [] self = "Patch"   -> PUT

fmt(self) ==
    CASE self = "Get"     -> GET
      [] self = "Head"    -> HEAD
      [] self = "Post"    -> POST
      [] self = "Put"     -> PUT
      [] self = "Delete"  -> DELETE
      [] self = "Connect" -> CONNECT
      [] self = "Options" -> OPTIONS
      [] self = "Trace"   -> TRACE
      [] self = "Patch"   -> PATCH

to_string(self) == fmt(self)

---------------------------------------------------------------------------
(* FromStr, method.rs lines 70-87. *)

\* s.trim(): s without its leading and trailing spaces
RECURSIVE Trim(_)
Trim(s) ==
    IF s = <<>> THEN s
    ELSE IF Head(s) = 32 THEN Trim(Tail(s))
    ELSE IF s[Len(s)] = 32 THEN Trim(SubSeq(s, 1, Len(s) - 1))
    ELSE s

\* from_str matching on s.trim()
from_str_trim(s) ==
    LET t == Trim(s) IN
    CASE t = GET     -> Ok("Get")
      [] t = HEAD    -> Ok("Head")
      [] t = POST    -> Ok("Post")
      [] t = PUT     -> Ok("Put")
      [] t = DELETE  -> Ok("Delete")
      [] t = CONNECT -> Ok("Connect")
      [] t = OPTIONS -> Ok("Options")
      [] t = TRACE   -> Ok("Trace")
      [] t = PATCH   -> Ok("Patch")
      [] OTHER       -> Err(ErrorNew("InvalidInput", FormatInvalid(s)))

\* from_str with the "PUT" arm returning Post
from_str_put_as_post(s) ==
    CASE s = GET     -> Ok("Get")
      [] s = HEAD    -> Ok("Head")
      [] s = POST    -> Ok("Post")
      [] s = PUT     -> Ok("Post")
      [] s = DELETE  -> Ok("Delete")
      [] s = CONNECT -> Ok("Connect")
      [] s = OPTIONS -> Ok("Options")
      [] s = TRACE   -> Ok("Trace")
      [] s = PATCH   -> Ok("Patch")
      [] OTHER       -> Err(ErrorNew("InvalidInput", FormatInvalid(s)))

from_str(s) ==
    CASE s = GET     -> Ok("Get")
      [] s = HEAD    -> Ok("Head")
      [] s = POST    -> Ok("Post")
      [] s = PUT     -> Ok("Put")
      [] s = DELETE  -> Ok("Delete")
      [] s = CONNECT -> Ok("Connect")
      [] s = OPTIONS -> Ok("Options")
      [] s = TRACE   -> Ok("Trace")
      [] s = PATCH   -> Ok("Patch")
      [] OTHER       -> Err(ErrorNew("InvalidInput", FormatInvalid(s)))

---------------------------------------------------------------------------
(* String::from_utf8(bytes.to_vec()), method.rs line 93: the standard      *)
(* library's UTF-8 validation, which yields the text or a FromUtf8Error    *)
(* holding valid_up_to (the offset of the first rejected character) and    *)
(* error_len (None when the buffer ends inside a character).               *)

\* a continuation byte, 0x80..0xBF
IsCont(b) == b \in 128..191

\* the length of the character a first byte announces; 0 for a byte that
\* starts no character (0x80..0xC1, 0xF5..0xFF)
utf8_char_width(b) ==
    IF b < 128 THEN 1
    ELSE IF b \in 194..223 THEN 2
    ELSE IF b \in 224..239 THEN 3
    ELSE IF b \in 240..244 THEN 4
    ELSE 0

\* the ranges of the second byte of a 3- or 4-byte character, which exclude
\* overlong forms, surrogates and values above U+10FFFF
SecondOk(w, first, second) ==
    IF w = 3
    THEN \/ first = 224 /\ second \in 160..191
         \/ first \in 225..236 /\ second \in 128..191
         \/ first = 237 /\ second \in 128..159
         \/ first \in 238..239 /\ second \in 128..191
    ELSE \/ first = 240 /\ second \in 144..191
         \/ first \in 241..243 /\ second \in 128..191
         \/ first = 244 /\ second \in 128..143

Utf8Error(valid_up_to, error_len) ==
    Err([valid_up_to |-> valid_up_to, error_len |-> error_len])

\* the scalar value of one well-formed character of w bytes starting at v[i]
CharAt(v, i, w) ==
    CASE w = 1 -> v[i]
      [] w = 2 -> (v[i] - 192) * 64 + (v[i+1] - 128)
      [] w = 3 -> (v[i] - 224) * 4096 + (v[i+1] - 128) * 64 + (v[i+2] - 128)
      [] w = 4 -> (v[i] - 240) * 262144 + (v[i+1] - 128) * 4096
                  + (v[i+2] - 128) * 64 + (v[i+3] - 128)

\* the check of the character starting at v[i] (1-based): None when it is
\* well formed, else Some(error_len) with error_len None or Some(n)
CharError(v, i, w) ==
    LET n == Len(v) IN
    IF w = 0 THEN Some(Some(1))
    ELSE IF w = 1 THEN None
    ELSE IF i + 1 > n THEN Some(None)
    ELSE IF w = 2
         THEN IF IsCont(v[i+1]) THEN None ELSE Some(Some(1))
    ELSE IF ~SecondOk(w, v[i], v[i+1]) THEN Some(Some(1))
    ELSE IF i + 2 > n THEN Some(None)
    ELSE IF ~IsCont(v[i+2]) THEN Some(Some(2))
    ELSE IF w = 3 THEN None
    ELSE IF i + 3 > n THEN Some(None)
    ELSE IF ~IsCont(v[i+3]) THEN Some(Some(3))
    ELSE None

RECURSIVE run_utf8_validation(_, _, _)
run_utf8_validation(v, i, acc) ==
    IF i > Len(v) THEN Ok(acc)
    ELSE LET w == utf8_char_width(v[i])
             e == CharError(v, i, w)
         IN  IF e.some
             THEN Utf8Error(i - 1, e.v)
             ELSE run_utf8_validation(v, i + w, Append(acc, CharAt(v, i, w)))

from_utf8(v) == run_utf8_validation(v, 1, <<>>)

\* Display of an unsigned integer: its decimal digits
RECURSIVE Decimal(_)
Decimal(n) ==
    IF n < 10 THEN <<48 + n>> ELSE Decimal(n \div 10) \o <<48 + (n % 10)>>

\* "invalid utf-8 sequence of ", " bytes from index " and
\* "incomplete utf-8 byte sequence from index "
Utf8MsgInvalid == <<105, 110, 118, 97, 108, 105, 100, 32, 117, 116, 102, 45, 56, 32,
                    115, 101, 113, 117, 101, 110, 99, 101, 32, 111, 102, 32>>
Utf8MsgFrom == <<32, 98, 121, 116, 101, 115, 32, 102, 114, 111, 109, 32,
                 105, 110, 100, 101, 120, 32>>
Utf8MsgIncomplete == <<105, 110, 99, 111, 109, 112, 108, 101, 116, 101, 32, 117, 116,
                       102, 45, 56, 32, 98, 121, 116, 101, 32, 115, 101, 113, 117, 101,
                       110, 99, 101, 32, 102, 114, 111, 109, 32, 105, 110, 100, 101,
                       120, 32>>

\* e.to_string() on line 95: Display of the FromUtf8Error
Utf8ErrorToString(e) ==
    IF e.error_len.some
    THEN Utf8MsgInvalid \o Decimal(e.error_len.v) \o Utf8MsgFrom \o Decimal(e.valid_up_to)
    ELSE Utf8MsgIncomplete \o Decimal(e.valid_up_to)

\* str::as_bytes: the UTF-8 encoding of a text (line 113 of the tests)
EncodeChar(c) ==
    IF c < 128 THEN <<c>>
    ELSE IF c < 2048 THEN <<192 + (c \div 64), 128 + (c % 64)>>
    ELSE IF c < 65536
         THEN <<224 + (c \div 4096), 128 + ((c \div 64) % 64), 128 + (c % 64)>>
    ELSE <<240 + (c \div 262144), 128 + ((c \div 4096) % 64),
           128 + ((c \div 64) % 64), 128 + (c % 64)>>

RECURSIVE as_bytes(_)
as_bytes(s) ==
    IF s = <<>> THEN <<>> ELSE EncodeChar(Head(s)) \o as_bytes(Tail(s))

---------------------------------------------------------------------------
(* TryFrom<&[u8]>, method.rs lines 89-98. *)

\* try_from taking the bytes as text without validating them
\* (String::from_utf8_unchecked)
try_from_unchecked(b) == from_str(b)

\* try_from decoding the buffer without its last byte
try_from_drop_last(b) ==
    LET r == from_utf8(SubSeq(b, 1, Len(b) - 1)) IN
    IF r.ok
    THEN from_str(r.val)
    ELSE Err(ErrorNew("InvalidInput", Utf8ErrorToString(r.err)))

\* try_from rejecting every non-ASCII byte as a decoding failure
try_from_ascii_only(b) ==
    IF \E i \in 1..Len(b) : b[i] >= 128
    THEN LET i == CHOOSE j \in 1..Len(b) :
                      b[j] >= 128 /\ \A k \in 1..(j - 1) : b[k] < 128
         IN  Err(ErrorNew("InvalidInput",
                 Utf8ErrorToString([valid_up_to |-> i - 1, error_len |-> Some(1)])))
    ELSE from_str(b)

\* try_from reporting a decoding failure as ErrorKind::InvalidData
try_from_invalid_data(b) ==
    LET r == from_utf8(b) IN
    IF r.ok
    THEN from_str(r.val)
    ELSE Err(ErrorNew("InvalidData", Utf8ErrorToString(r.err)))

try_from(b) ==
    LET r == from_utf8(b) IN
    IF r.ok
    THEN from_str(r.val)
    ELSE Err(ErrorNew("InvalidInput", Utf8ErrorToString(r.err)))

---------------------------------------------------------------------------
(* The inputs: the byte buffers a caller may hand to the parse entry       *)
(* points.                                                                 *)

Tokens == {GET, HEAD, POST, PUT, DELETE, CONNECT, OPTIONS, TRACE, PATCH}

\* 'G', ' ', and the bytes 0x80, 0xC3, 0xE2, 0xF0
Alphabet == {71, 32, 128, 195, 226, 240}

\* every buffer over Alphabet of at most MaxLen bytes
ShortBuffers == UNION {[1..n -> Alphabet] : n \in 0..MaxLen}

\* a canonical token with one byte appended, prepended, replaced or dropped,
\* or with one or all of its letters in lower case
NearTokens ==
    UNION {
        {Append(t, c) : c \in Alphabet}
        \cup {<<c>> \o t : c \in Alphabet}
        \cup {[t EXCEPT ![i] = c] : i \in 1..Len(t), c \in Alphabet}
        \cup {[t EXCEPT ![i] = t[i] + 32] : i \in 1..Len(t)}
        \cup {[i \in 1..Len(t) |-> t[i] + 32]}
        \cup {SubSeq(t, 1, Len(t) - 1)}
        : t \in Tokens}

Samples == {
    <<80, 82, 79, 80, 70, 73, 78, 68>>,   \* "PROPFIND"
    <<80, 79, 83, 84, 10>>,               \* "POST\n"
    <<195, 169>>,                         \* U+00E9
    <<226, 130, 172>>,                    \* U+20AC
    <<240, 159, 152, 128>>,               \* U+1F600
    <<71, 69, 84, 195, 169>>,             \* "GET" followed by U+00E9
    <<192, 128>>,                         \* overlong form of U+0000
    <<224, 128, 128>>,                    \* overlong 3-byte form
    <<237, 160, 128>>,                    \* a surrogate, U+D800
    <<244, 144, 128, 128>>,               \* above U+10FFFF
    <<255>>,                              \* never a UTF-8 byte
    <<226, 130>>,                         \* U+20AC cut short
    <<226, 130, 71>>,                     \* third byte not a continuation
    <<240, 159, 152>>,                    \* U+1F600 cut short
    <<240, 159, 152, 71>>,                \* fourth byte not a continuation
    <<240, 159, 71, 71>>,                 \* third byte not a continuation
    <<71, 69, 84, 128>>,                  \* "GET" followed by 0x80
    <<80, 79, 83, 84, 71, 69, 84, 80, 85, 84, 195>> \* cut short at offset 10
}

Inputs == Tokens \cup ShortBuffers \cup NearTokens \cup Samples

---------------------------------------------------------------------------
(* The state machine: a caller holding a byte buffer and possibly a Method *)
(* value, calling the operations of method.rs in any order.                *)

\* the buffer seen as text, when it is text
AsText(b) == LET r == from_utf8(b) IN IF r.ok THEN Some(r.val) ELSE None

Init ==
    /\ bytes \in Inputs
    /\ text = AsText(bytes)
    /\ method \in Method \cup {NoMethod}
    /\ flags = NoFlags
    /\ lastRender = NoCall
    /\ lastParse = NoCall
    /\ lastTry = NoCall

\* let method = <a parse result>.unwrap(), as the tests do: a successful parse
\* replaces the value the caller holds
Hold(r) ==
    /\ method' = IF r.ok THEN r.val ELSE method
    /\ flags' = IF r.ok /\ r.val # method THEN NoFlags ELSE flags

\* the texts the caller can pass to from_str
StrArgs ==
    (IF text.some THEN {text.v} ELSE {})
    \cup (IF lastRender.called THEN {lastRender.out} ELSE {})

IsSafe ==
    /\ method # NoMethod
    /\ flags' = [flags EXCEPT !.is_safe = Some(is_safe(method))]
    /\ UNCHANGED <<bytes, text, method, lastRender, lastParse, lastTry>>

IsIdempotent ==
    /\ method # NoMethod
    /\ flags' = [flags EXCEPT !.is_idempotent = Some(is_idempotent(method))]
    /\ UNCHANGED <<bytes, text, method, lastRender, lastParse, lastTry>>

IsCacheable ==
    /\ method # NoMethod
    /\ flags' = [flags EXCEPT !.is_cacheable = Some(is_cacheable(method))]
    /\ UNCHANGED <<bytes, text, method, lastRender, lastParse, lastTry>>

HasBody ==
    /\ method # NoMethod
    /\ flags' = [flags EXCEPT !.has_body = Some(has_body(method))]
    /\ UNCHANGED <<bytes, text, method, lastRender, lastParse, lastTry>>

ToString ==
    /\ method # NoMethod
    /\ lastRender' = Call(method, to_string(method))
    /\ UNCHANGED <<bytes, text, method, flags, lastParse, lastTry>>

FromStr ==
    \E s \in StrArgs :
        LET r == from_str(s) IN
        /\ lastParse' = Call(s, r)
        /\ Hold(r)
        /\ UNCHANGED <<bytes, text, lastRender, lastTry>>

TryFrom ==
    LET r == try_from(bytes) IN
    /\ lastTry' = Call(bytes, r)
    /\ Hold(r)
    /\ UNCHANGED <<bytes, text, lastRender, lastParse>>

Next ==
    \/ IsSafe
    \/ IsIdempotent
    \/ IsCacheable
    \/ HasBody
    \/ ToString
    \/ FromStr
    \/ TryFrom

Spec == Init /\ [][Next]_vars

---------------------------------------------------------------------------
(* The vocabulary of the properties.  The specification names two error    *)
(* conditions; in the code each is an io::Error, told apart by its         *)
(* message: InvalidMethod is the error built on line 84, InvalidEncoding   *)
(* the one built on line 95 from the decoder's error.                      *)

StartsWith(s, p) == Len(s) >= Len(p) /\ SubSeq(s, 1, Len(p)) = p
EndsWith(s, p) == Len(s) >= Len(p) /\ SubSeq(s, Len(s) - Len(p) + 1, Len(s)) = p

InvalidMethod(e) ==
    /\ StartsWith(e.msg, InvalidMsgHead)
    /\ EndsWith(e.msg, InvalidMsgTail)
    /\ Len(e.msg) >= Len(InvalidMsgHead) + Len(InvalidMsgTail)

InvalidEncoding(e) ==
    \/ StartsWith(e.msg, Utf8MsgInvalid)
    \/ StartsWith(e.msg, Utf8MsgIncomplete)

\* the canonical token of each variant, as the specification tabulates it
CanonicalToken ==
    [m \in Method |->
        CASE m = "Get"     -> <<71, 69, 84>>
          [] m = "Head"    -> <<72, 69, 65, 68>>
          [] m = "Post"    -> <<80, 79, 83, 84>>
          [] m = "Put"     -> <<80, 85, 84>>
          [] m = "Delete"  -> <<68, 69, 76, 69, 84, 69>>
          [] m = "Connect" -> <<67, 79, 78, 78, 69, 67, 84>>
          [] m = "Options" -> <<79, 80, 84, 73, 79, 78, 83>>
          [] m = "Trace"   -> <<84, 82, 65, 67, 69>>
          [] m = "Patch"   -> <<80, 65, 84, 67, 72>>]

CanonicalTokens == {CanonicalToken[m] : m \in Method}

\* the variant a canonical token names
VariantNamed(s) == CHOOSE m \in Method : CanonicalToken[m] = s

\* the buffer is the UTF-8 encoding of a text
ValidUtf8 == text.some /\ as_bytes(text.v) = bytes

\* the four membership sets of the specification
SafeSet == {"Get", "Head", "Options", "Trace"}
IdempotentSet == {"Get", "Head", "Options", "Trace", "Put", "Delete"}
CacheableSet == {"Get", "Head"}
BodySet == {"Post", "Put", "Delete", "Patch"}

---------------------------------------------------------------------------
(* The properties. *)

\* C1: round-trip law: parsing the text produced by rendering a variant m
\* succeeds and returns exactly m.
RoundTrip ==
    (lastRender.called /\ lastParse.called /\ lastParse.arg = lastRender.out)
        => lastParse.out = Ok(lastRender.arg)

RoundTripWitness ==
    /\ lastRender.called /\ lastRender.arg = "Patch"
    /\ lastParse.called /\ lastParse.arg = lastRender.out
    /\ lastParse.out = Ok("Patch")

\* C2: exactness: from_str on a text that is not exactly one of the 9
\* canonical tokens returns no variant, and no default in its place: it
\* fails with InvalidMethod.
Exactness ==
    (lastParse.called /\ lastParse.arg \notin CanonicalTokens)
        => /\ ~lastParse.out.ok
           /\ InvalidMethod(lastParse.out.err)

ExactnessWitness ==
    /\ lastParse.called
    /\ lastParse.arg = <<71, 69, 84, 32>>
    /\ ~lastParse.out.ok

\* C3: invalid encoding: try_from on a buffer that is not valid UTF-8 fails
\* with InvalidEncoding and not with InvalidMethod, so the error returned
\* tells the decoding failure from the match failure.
InvalidEncodingDistinct ==
    (lastTry.called /\ ~ValidUtf8)
        => /\ ~lastTry.out.ok
           /\ InvalidEncoding(lastTry.out.err)
           /\ ~InvalidMethod(lastTry.out.err)

InvalidEncodingWitness ==
    /\ lastTry.called
    /\ lastTry.arg = <<128>>
    /\ ~lastTry.out.ok
    /\ InvalidEncoding(lastTry.out.err)

\* C4: byte/text equivalence: for a canonical token s, try_from on the UTF-8
\* encoding of s returns what from_str returns on s.
ByteTextEquivalence ==
    (/\ lastTry.called
     /\ lastParse.called
     /\ lastParse.arg \in CanonicalTokens
     /\ lastTry.arg = as_bytes(lastParse.arg))
        => lastTry.out = lastParse.out

ByteTextWitness ==
    /\ lastTry.called /\ lastTry.arg = <<80, 79, 83, 84>>
    /\ lastParse.called /\ lastParse.arg = <<80, 79, 83, 84>>
    /\ lastTry.out = Ok("Post")
    /\ lastParse.out = Ok("Post")

\* C5: predicate membership: each predicate is true exactly on its set of
\* the specification's table and false on every other variant.
PredicateMembership ==
    /\ flags.is_safe.some => flags.is_safe.v = (method \in SafeSet)
    /\ flags.is_idempotent.some => flags.is_idempotent.v = (method \in IdempotentSet)
    /\ flags.is_cacheable.some => flags.is_cacheable.v = (method \in CacheableSet)
    /\ flags.has_body.some => flags.has_body.v = (method \in BodySet)

PredicateWitness ==
    /\ method = "Delete"
    /\ flags = [is_safe |-> Some(FALSE), is_idempotent |-> Some(TRUE),
                is_cacheable |-> Some(FALSE), has_body |-> Some(TRUE)]

\* C6: rendering: to_string produces exactly the variant's canonical
\* uppercase token, and the rendered tokens are exactly the texts from_str
\* accepts.
Rendering ==
    /\ lastRender.called => lastRender.out = CanonicalToken[lastRender.arg]
    /\ lastParse.called
        => (lastParse.out.ok <=> \E m \in Method : lastParse.arg = CanonicalToken[m])
    /\ Cardinality(CanonicalTokens) = Cardinality(Method)

RenderingWitness ==
    /\ lastRender.called
    /\ lastRender.arg = "Connect"
    /\ lastRender.out = <<67, 79, 78, 78, 69, 67, 84>>

\* C7: reverse round trip: from_str on a canonical token s succeeds with the
\* variant s names, and rendering that variant returns exactly s.
ReverseRoundTrip ==
    (lastParse.called /\ lastParse.arg \in CanonicalTokens)
        => /\ lastParse.out = Ok(VariantNamed(lastParse.arg))
           /\ (lastRender.called /\ lastRender.arg = lastParse.out.val)
                => lastRender.out = lastParse.arg

ReverseRoundTripWitness ==
    /\ lastParse.called /\ lastParse.arg = <<80, 79, 83, 84>>
    /\ lastParse.out = Ok("Post")
    /\ lastRender.called /\ lastRender.arg = "Post"
    /\ lastRender.out = <<80, 79, 83, 84>>

\* C8: two-stage byte parsing: try_from on a buffer that is valid UTF-8 but
\* whose text is not a canonical token fails with InvalidMethod, the outcome
\* of from_str on the decoded text; InvalidEncoding is returned only when
\* decoding fails.
TwoStage ==
    lastTry.called =>
        /\ (ValidUtf8 /\ text.v \notin CanonicalTokens)
            => /\ ~lastTry.out.ok
               /\ InvalidMethod(lastTry.out.err)
               /\ ~InvalidEncoding(lastTry.out.err)
               /\ (lastParse.called /\ lastParse.arg = text.v)
                    => lastTry.out = lastParse.out
        /\ (~lastTry.out.ok /\ InvalidEncoding(lastTry.out.err)) => ~ValidUtf8

TwoStageWitness ==
    /\ lastTry.called /\ lastTry.arg = <<195, 169>>
    /\ lastParse.called /\ lastParse.arg = <<233>>
    /\ ~lastTry.out.ok
    /\ lastTry.out = lastParse.out

\* C9: the classification sets are nested: a cacheable variant is safe and a
\* safe variant is idempotent.
Nested ==
    /\ flags.is_cacheable = Some(TRUE) => flags.is_safe # Some(FALSE)
    /\ flags.is_safe = Some(TRUE) => flags.is_idempotent # Some(FALSE)
    /\ flags.is_cacheable = Some(TRUE) => flags.is_idempotent # Some(FALSE)

NestedWitness ==
    /\ method = "Head"
    /\ flags.is_cacheable = Some(TRUE)
    /\ flags.is_safe = Some(TRUE)
    /\ flags.is_idempotent = Some(TRUE)

\* C10: every failure of either entry point is an io::Error of kind
\* InvalidInput; an unknown token carries the message
\* "The method `<s>` is invalid." and a decoding failure the decoder's
\* message, so the two differ only in their message.
SameErrorKind ==
    /\ (lastParse.called /\ ~lastParse.out.ok)
        => /\ lastParse.out.err.kind = "InvalidInput"
           /\ lastParse.out.err.msg = InvalidMsgHead \o lastParse.arg \o InvalidMsgTail
    /\ (lastTry.called /\ ~lastTry.out.ok)
        => /\ lastTry.out.err.kind = "InvalidInput"
           /\ IF ValidUtf8
              THEN lastTry.out.err.msg = InvalidMsgHead \o text.v \o InvalidMsgTail
              ELSE /\ InvalidEncoding(lastTry.out.err)
                   /\ \A s \in StrArgs :
                        lastTry.out.err.msg # InvalidMsgHead \o s \o InvalidMsgTail

SameErrorKindWitness ==
    /\ lastTry.called /\ lastTry.arg = <<80, 79, 83, 84, 71, 69, 84, 80, 85, 84, 195>>
    /\ ~lastTry.out.ok
    /\ lastTry.out.err.kind = "InvalidInput"
    /\ lastTry.out.err.msg = Utf8MsgIncomplete \o <<49, 48>>

====
